---- MODULE Spec2Model ----
(***************************************************************************)
(* A model of mirrormind's engine.py: text normalization, the keyword      *)
(* retrieval scan, prompt formatting, and get_response / save_memory over  *)
(* the JSON / YAML store files.                                            *)
(*                                                                         *)
(* Text is a sequence of one-character strings.  A token is a non-empty    *)
(* sequence of characters.  Entries are records whose fields hold text.    *)
(***************************************************************************)
EXTENDS Integers, Sequences, FiniteSets, TLC

VARIABLES
    \* --- normalization (SpecNorm) ---
    orig,            \* a text as first given
    cur,             \* the same text after case / punctuation edits or re-normalization
    \* --- one call of retrieve_relevant_context (SpecRetrieve) ---
    user_input,      \* parameter user_input
    data,            \* parameter data
    text_key,        \* parameter text_key
    max_results,     \* parameter max_results
    idx,             \* position in data the reversed() iterator yields next (0: exhausted)
    matches,         \* local matches, as positions in data (the entry objects appended)
    inspected,       \* positions whose entry the loop body has normalized and compared, in order
    rpc,             \* "scan" | "return" | "done"
    result,          \* the returned list, as positions in data
    \* --- the store files and get_response / save_memory (SpecEngine, SpecConc) ---
    memory_file,     \* MEMORY_FILE
    goals_file,      \* GOALS_FILE
    constitution_file, \* CONSTITUTION_FILE
    clock,           \* datetime.utcnow(), as the number of entries written so far
    last,            \* the most recent whole call: what it was given, found and did
    \* --- two get_response invocations, step by step (SpecConc) ---
    pc,              \* each invocation's position
    loc,             \* each invocation's locals
    started,         \* the invocations in the order they were started
    overlap,         \* whether one invocation took a step while the other was under way
    init_memory      \* the entries load_json_data gave before either invocation

vars == <<orig, cur, user_input, data, text_key, max_results, idx, matches,
          inspected, rpc, result, memory_file, goals_file, constitution_file,
          clock, last, pc, loc, started, overlap, init_memory>>

normVars == <<orig, cur>>
retrVars == <<user_input, data, text_key, max_results, idx, matches, inspected, rpc, result>>
fileVars == <<memory_file, goals_file, constitution_file, clock>>
concVars == <<pc, loc, started, overlap, init_memory>>

----------------------------------------------------------------------------
(* Bounds *)

MaxTextLen == 3
MaxEntries == 3
MaxK == 3
MaxMemories == 3

----------------------------------------------------------------------------
(* Characters and normalization: engine.py lines 17-31, 72-73, 88-89 *)

Letters == {"a", "b", "s"}
Capitals == {"A", "B", "S"}
Digits == {"1"}
Whitespace == {" "}
Punctuation == {".", "'"}
Alphabet == Letters \cup Capitals \cup Digits \cup Whitespace \cup Punctuation

\* str.lower() on one character
Lower(c) == CASE c = "A" -> "a" [] c = "B" -> "b" [] c = "S" -> "s" [] OTHER -> c

\* str.upper() on one character
Upper(c) == CASE c = "a" -> "A" [] c = "b" -> "B" [] c = "s" -> "S" [] OTHER -> c

\* str.isalnum()
isalnum(c) == c \in Letters \cup Capitals \cup Digits

\* str.isspace()
isspace(c) == c \in Whitespace

\* The members of STOP_WORDS that can be written with the letters of
\* Alphabet: "a", "as" and "s".
STOP_WORDS == {<<"a">>, <<"a", "s">>, <<"s">>}

Range(s) == {s[i] : i \in DOMAIN s}

LowerText(s) == [i \in DOMAIN s |-> Lower(s[i])]

\* ''.join(c for c in text.lower() if c.isalnum() or c.isspace())
CleanCaseKept(s) == SelectSeq(s, LAMBDA c : isalnum(c) \/ isspace(c))
Clean(s) == SelectSeq(LowerText(s), LAMBDA c : isalnum(c) \/ isspace(c))

\* str.split(): the maximal runs of non-whitespace characters, in order
RECURSIVE SplitFrom(_, _, _)
SplitFrom(s, i, run) ==
    IF i > Len(s)
    THEN IF run = <<>> THEN <<>> ELSE <<run>>
    ELSE IF isspace(s[i])
         THEN (IF run = <<>> THEN <<>> ELSE <<run>>) \o SplitFrom(s, i + 1, <<>>)
         ELSE SplitFrom(s, i + 1, Append(run, s[i]))

Split(s) == SplitFrom(s, 1, <<>>)

\* set(clean.split()) - STOP_WORDS
Keywords(s) == Range(Split(Clean(s))) \ STOP_WORDS

----------------------------------------------------------------------------
(* retrieve_relevant_context: engine.py lines 66-100 *)

\* text_key is a field name or a list of field names: isinstance(text_key, list)
SummaryKey == [is_list |-> FALSE, keys |-> <<"summary">>]
NameKey == [is_list |-> FALSE, keys |-> <<"name">>]
GoalKeys == [is_list |-> TRUE, keys |-> <<"name", "description">>]
TextKeys == {SummaryKey, NameKey, GoalKeys}

\* max_results=2 in the signature
DefaultMaxResults == 2

\* entry.get(key, "")
Get(entry, key) == IF key \in DOMAIN entry THEN entry[key] ELSE <<>>

\* one turn of "for key in text_key": entry.get(key, "") + " "
FieldPieceUnspaced(entry, key) == Get(entry, key)
FieldPiece(entry, key) == Get(entry, key) \o <<" ">>

RECURSIVE JoinFields(_, _, _)
JoinFields(entry, keys, i) ==
    IF i > Len(keys) THEN <<>>
    ELSE FieldPiece(entry, keys[i]) \o JoinFields(entry, keys, i + 1)

\* entry_text_raw, lines 80-85
EntryTextRaw(entry, tk) ==
    IF tk.is_list THEN JoinFields(entry, tk.keys, 1) ELSE Get(entry, tk.keys[1])

\* entry_keywords, lines 88-89
EntryKeywords(entry, tk) == Keywords(EntryTextRaw(entry, tk))

\* "if keywords & entry_keywords", line 92
Overlaps(q, entry, tk) == Keywords(q) \cap EntryKeywords(entry, tk) # {}

\* the loop body up to the append, lines 79-93
LoopBody(q, d, tk, i, m) == IF Overlaps(q, d[i], tk) THEN Append(m, i) ELSE m

\* "if len(matches) >= max_results: break", lines 96-97
EnoughMatchesStrict(m, k) == Len(m) > k
EnoughMatches(m, k) == Len(m) >= k

Reverse(s) == [i \in DOMAIN s |-> s[Len(s) + 1 - i]]

\* the whole loop from position i down, as the positions appended
RECURSIVE ScanFrom(_, _, _, _, _, _)
ScanFrom(q, d, tk, k, i, m) ==
    IF i = 0 THEN m
    ELSE LET m2 == LoopBody(q, d, tk, i, m)
         IN IF EnoughMatches(m2, k) THEN m2 ELSE ScanFrom(q, d, tk, k, i - 1, m2)

\* the positions of the entries returned, line 100
RetrievePositions(q, d, tk, k) == Reverse(ScanFrom(q, d, tk, k, Len(d), <<>>))

\* retrieve_relevant_context as a function
retrieve_relevant_context(q, d, tk, k) ==
    LET pos == RetrievePositions(q, d, tk, k) IN [j \in DOMAIN pos |-> d[pos[j]]]

----------------------------------------------------------------------------
(* The store files: engine.py lines 34-49 *)

\* A JSON store file is absent, holds text json.load cannot decode
\* ("malformed"), holds a JSON value that is no array, such as 5 ("scalar"),
\* or holds an array of entries ("list").
ListFile(entries) == [kind |-> "list", entries |-> entries]
AbsentFile == [kind |-> "absent", entries |-> <<>>]
MalformedFile == [kind |-> "malformed", entries |-> <<>>]
ScalarFile == [kind |-> "scalar", entries |-> <<>>]

\* The YAML file is absent, cannot be parsed, or holds a document.
AbsentDoc == [kind |-> "absent", doc |-> "{}"]
MalformedDoc == [kind |-> "malformed", doc |-> "{}"]
PrinciplesDoc == [kind |-> "doc", doc |-> "principles"]

\* load_json_data: [] when the file is absent or json.load raises
\* JSONDecodeError; otherwise whatever value the file holds.
load_json_data(file) ==
    IF file.kind = "scalar"
    THEN [is_list |-> FALSE, entries |-> <<>>]
    ELSE [is_list |-> TRUE,
          entries |-> IF file.kind = "list" THEN file.entries ELSE <<>>]

\* load_yaml_data: {} when the file is absent; yaml.safe_load otherwise, whose
\* YAMLError on text it cannot parse is not caught.
load_yaml_data(file) ==
    [raised |-> file.kind = "malformed",
     doc |-> IF file.kind = "doc" THEN file.doc ELSE "{}"]

----------------------------------------------------------------------------
(* format_context_for_prompt and the prompt: engine.py lines 103-146 *)

\* A prompt is a sequence of segments.
Header(title) == [seg |-> "header", title |-> title, f0 |-> <<>>, f1 |-> <<>>]
Line(v) == [seg |-> "line", title |-> "", f0 |-> v, f1 |-> <<>>]
PairLine(v, w) == [seg |-> "pairline", title |-> "", f0 |-> v, f1 |-> w]
Footer == [seg |-> "footer", title |-> "", f0 |-> <<>>, f1 |-> <<>>]
Blank == [seg |-> "blank", title |-> "", f0 |-> <<>>, f1 |-> <<>>]
Persona(doc) == [seg |-> "persona", title |-> doc, f0 |-> <<>>, f1 |-> <<>>]
Thought(q) == [seg |-> "thought", title |-> "", f0 |-> q, f1 |-> <<>>]
MockNote == [seg |-> "mock_note", title |-> "", f0 |-> <<>>, f1 |-> <<>>]
EndOfPrompt == [seg |-> "end_of_prompt", title |-> "", f0 |-> <<>>, f1 |-> <<>>]

\* formatted_texts, lines 108-113
FormattedTexts(context_data, tk) ==
    [i \in DOMAIN context_data |->
        IF tk.is_list
        THEN PairLine(Get(context_data[i], tk.keys[1]), Get(context_data[i], tk.keys[2]))
        ELSE Line(Get(context_data[i], tk.keys[1]))]

format_context_always_framed(context_data, title, tk) ==
    <<Header(title)>> \o FormattedTexts(context_data, tk) \o <<Footer, Blank>>
format_context_for_prompt(context_data, title, tk) ==
    IF context_data = <<>> THEN <<>>
    ELSE <<Header(title)>> \o FormattedTexts(context_data, tk) \o <<Footer, Blank>>

\* get_response lines 128-146 on what was loaded: raises when a loaded value
\* is no list (reversed() of a number, or iterating strings that have no
\* .get), else the retrieved entries, the prompt and the reply
BuildReply(q, memories, goals, constitution) ==
    IF ~memories.is_list \/ ~goals.is_list
    THEN [raised |-> TRUE, relevant_memories |-> <<>>, relevant_goals |-> <<>>,
          prompt |-> <<>>, reply |-> <<>>]
    ELSE LET relevant_memories ==
                 retrieve_relevant_context(q, memories.entries, SummaryKey, DefaultMaxResults)
             relevant_goals ==
                 retrieve_relevant_context(q, goals.entries, GoalKeys, DefaultMaxResults)
             memory_context == format_context_for_prompt(relevant_memories, "Memories", SummaryKey)
             goal_context == format_context_for_prompt(relevant_goals, "Goals", GoalKeys)
             full_prompt == <<Persona(constitution)>> \o goal_context \o memory_context
                            \o <<Thought(q)>>
         IN [raised |-> FALSE, relevant_memories |-> relevant_memories,
             relevant_goals |-> relevant_goals, prompt |-> full_prompt,
             reply |-> <<MockNote>> \o full_prompt \o <<EndOfPrompt>>]

\* new_memory, lines 54-60
new_memory(user, reply, summary, now) ==
    [timestamp |-> now, user_input |-> user, assistant_reply |-> reply,
     summary |-> summary, themes |-> <<>>]

\* memories.append(new_memory), line 61
AppendedDroppingOld(memories, entry) == <<entry>>
Appended(memories, entry) == Append(memories, entry)

----------------------------------------------------------------------------
(* Idle values of the variables a specification does not use *)

NormIdle == orig = <<>> /\ cur = <<>>

RetrIdle ==
    /\ user_input = <<>> /\ data = <<>> /\ text_key = SummaryKey
    /\ max_results = DefaultMaxResults
    /\ idx = 0 /\ matches = <<>> /\ inspected = <<>> /\ rpc = "idle" /\ result = <<>>

NoCall == [op |-> "none"]

FileIdle ==
    /\ memory_file = AbsentFile /\ goals_file = AbsentFile
    /\ constitution_file = AbsentDoc /\ clock = 0 /\ last = NoCall

ConcIdle ==
    /\ pc = <<>> /\ loc = <<>> /\ started = <<>> /\ overlap = FALSE /\ init_memory = <<>>

----------------------------------------------------------------------------
(* SpecNorm: a text, and texts that differ from it in letter case or in   *)
(* punctuation only, or that are the space-joined tokens of such a text.   *)

Texts(n) == UNION {[1..k -> Alphabet] : k \in 0..n}

InitNorm ==
    /\ orig \in Texts(MaxTextLen)
    /\ cur = orig
    /\ RetrIdle /\ FileIdle /\ ConcIdle

\* change the case of one letter
ChangeCase(i) ==
    /\ cur[i] \in Letters \cup Capitals
    /\ cur' = [cur EXCEPT ![i] = IF @ \in Letters THEN Upper(@) ELSE Lower(@)]
    /\ UNCHANGED <<orig, retrVars, fileVars, last, concVars>>

\* put a punctuation character in after position i
AddPunctuation(i, p) ==
    /\ Len(cur) < MaxTextLen
    /\ cur' = SubSeq(cur, 1, i) \o <<p>> \o SubSeq(cur, i + 1, Len(cur))
    /\ UNCHANGED <<orig, retrVars, fileVars, last, concVars>>

\* take the punctuation character at position i out
DropPunctuation(i) ==
    /\ cur[i] \in Punctuation
    /\ cur' = SubSeq(cur, 1, i - 1) \o SubSeq(cur, i + 1, Len(cur))
    /\ UNCHANGED <<orig, retrVars, fileVars, last, concVars>>

RECURSIVE JoinTokens(_)
JoinTokens(toks) ==
    IF toks = <<>> THEN <<>>
    ELSE IF Len(toks) = 1 THEN toks[1]
    ELSE toks[1] \o <<" ">> \o JoinTokens(Tail(toks))

\* the orderings of a set of tokens (a Python set iterates in no fixed order)
Orderings(S) ==
    {f \in [1..Cardinality(S) -> S] : \A i, j \in 1..Cardinality(S) : i # j => f[i] # f[j]}

\* replace the text by its tokens, joined by spaces
Renormalize ==
    /\ \E order \in Orderings(Keywords(cur)) : cur' = JoinTokens(order)
    /\ cur' # cur
    /\ UNCHANGED <<orig, retrVars, fileVars, last, concVars>>

NextNorm ==
    \/ \E i \in DOMAIN cur : ChangeCase(i)
    \/ \E i \in 0..Len(cur), p \in Punctuation : AddPunctuation(i, p)
    \/ \E i \in DOMAIN cur : DropPunctuation(i)
    \/ Renormalize

SpecNorm == InitNorm /\ [][NextNorm]_vars

\* C7: texts that differ only in letter case or in punctuation characters have
\* the same token set, and so do a text and the space-joined tokens of its
\* normalization.
C7_NormalizationInsensitiveIdempotent == Keywords(cur) = Keywords(orig)

\* a text with a capital, a punctuation character and a token has been
\* replaced by its space-joined tokens
C7_Witness ==
    /\ \E i \in DOMAIN orig : orig[i] \in Capitals
    /\ \E i \in DOMAIN orig : orig[i] \in Punctuation
    /\ Keywords(orig) # {}
    /\ cur # orig
    /\ \E order \in Orderings(Keywords(orig)) : cur = JoinTokens(order)

----------------------------------------------------------------------------
(* SpecRetrieve: one call of retrieve_relevant_context, one loop turn a    *)
(* step, on every query, data sequence, text_key and max_results drawn     *)
(* from the sets below.                                                    *)

QueryCorpus ==
    { <<"A", "b", ".">>,             \* Ab.
      <<"a">>,                       \* a       (a stop word: no keywords)
      <<"a", " ", "B", "'">>,        \* a B'
      <<"1", " ", "a", "b">> }       \* 1 ab

EntryCorpus ==
    { [summary |-> <<"A", "b", " ", "1">>],
      [summary |-> <<"A", "'", "s">>],
      [name |-> <<"a">>, description |-> <<"b">>],
      [name |-> <<"B", ".">>, description |-> <<"1">>],
      [name |-> <<"a", "b">>, summary |-> <<"b">>] }

DataSeqs(n) == UNION {[1..k -> EntryCorpus] : k \in 0..n}

InitRetrieve ==
    /\ user_input \in QueryCorpus
    /\ data \in DataSeqs(MaxEntries)
    /\ text_key \in TextKeys
    /\ max_results \in 0..MaxK
    /\ idx = Len(data)
    /\ matches = <<>>
    /\ inspected = <<>>
    /\ rpc = IF Len(data) = 0 THEN "return" ELSE "scan"
    /\ result = <<>>
    /\ NormIdle /\ FileIdle /\ ConcIdle

\* one turn of "for entry in reversed(data)", lines 78-97
ScanStep ==
    /\ rpc = "scan"
    /\ LET m2 == LoopBody(user_input, data, text_key, idx, matches)
       IN /\ matches' = m2
          /\ inspected' = Append(inspected, idx)
          /\ IF EnoughMatches(m2, max_results)
             THEN idx' = idx /\ rpc' = "return"
             ELSE idx' = idx - 1 /\ rpc' = IF idx = 1 THEN "return" ELSE "scan"
    /\ UNCHANGED <<user_input, data, text_key, max_results, result>>
    /\ UNCHANGED <<normVars, fileVars, last, concVars>>

\* "return list(reversed(matches))", line 100
Return ==
    /\ rpc = "return"
    /\ result' = Reverse(matches)
    /\ rpc' = "done"
    /\ UNCHANGED <<user_input, data, text_key, max_results, idx, matches, inspected>>
    /\ UNCHANGED <<normVars, fileVars, last, concVars>>

NextRetrieve == ScanStep \/ Return

SpecRetrieve == InitRetrieve /\ [][NextRetrieve]_vars

\* the step-by-step call returns what the function gives
StepwiseAgrees ==
    rpc = "done" => result = RetrievePositions(user_input, data, text_key, max_results)

\* whether a text shares a token that is no stop word with the query
SharesKeyword(q, text) ==
    \E tok \in Range(Split(Clean(q))) :
        tok \notin STOP_WORDS /\ tok \in Range(Split(Clean(text)))

\* the positions of data whose entry has lexical overlap with the query, ascending
MatchingSeq ==
    SelectSeq([i \in 1..Len(data) |-> i],
              LAMBDA i : SharesKeyword(user_input, EntryTextRaw(data[i], text_key)))

Min(a, b) == IF a <= b THEN a ELSE b

\* C1: on non-empty data the call returns at most max_results entries, each
\* sharing a token that is no stop word with the query.
C1_AtMostKEachSharing ==
    (rpc = "done" /\ data # <<>>) =>
        /\ Len(result) <= max_results
        /\ \A j \in DOMAIN result :
              SharesKeyword(user_input, EntryTextRaw(data[result[j]], text_key))

\* C2: the call returns exactly the min(k, m) matching entries of highest
\* position, in ascending position order.
C2_KMostRecentAscending ==
    rpc = "done" =>
        LET m == Len(MatchingSeq)
            n == Min(max_results, m)
        IN result = SubSeq(MatchingSeq, m - n + 1, m)

\* C1 and C2 for max_results >= 1
RetrieveCorrectWhenPositive ==
    (rpc = "done" /\ max_results >= 1) =>
        /\ Len(result) <= max_results
        /\ LET m == Len(MatchingSeq)
               n == Min(max_results, m)
           IN result = SubSeq(MatchingSeq, m - n + 1, m)

C9_WitnessExhausted ==
    /\ rpc = "done" /\ Len(data) >= 2
    /\ 1 <= Len(MatchingSeq) /\ Len(MatchingSeq) < max_results
    /\ Len(inspected) = Len(data)

\* C10: with a list of field names the entry's token set is the union of the
\* fields' token sets (a missing field giving none), so an inspected entry is
\* a match iff one listed field alone shares a keyword with the query; with
\* a single field name only that field counts.
C10_FieldUnion ==
    /\ \A i \in DOMAIN data :
          EntryKeywords(data[i], text_key) =
              UNION {Keywords(Get(data[i], text_key.keys[f])) : f \in DOMAIN text_key.keys}
    /\ \A j \in DOMAIN inspected :
          (\E h \in DOMAIN matches : matches[h] = inspected[j])
          <=> \E f \in DOMAIN text_key.keys :
                 SharesKeyword(user_input, Get(data[inspected[j]], text_key.keys[f]))

\* a two-field entry matched through its second field only, next to an entry
\* whose two fields would form the query's token if run together
C10_Witness ==
    /\ rpc = "done" /\ text_key = GoalKeys
    /\ user_input = <<"A", "b", ".">>
    /\ \E i \in DOMAIN inspected :
          /\ data[inspected[i]] = [name |-> <<"a">>, description |-> <<"b">>]
          /\ \A h \in DOMAIN matches : matches[h] # inspected[i]
    /\ \E i \in DOMAIN inspected :
          /\ data[inspected[i]] = [name |-> <<"a", "b">>, summary |-> <<"b">>]
          /\ \E h \in DOMAIN matches : matches[h] = inspected[i]

----------------------------------------------------------------------------
(* SpecEngine: get_response and save_memory called one after the other,    *)
(* whatever the three store files hold at the start.                       *)

EngineQueries == { <<"A", "b", ".">>, <<"a", " ", "B", "'">>, <<"a">> }

Goal1 == [name |-> <<"a", "b">>, description |-> <<"1">>]
Goal2 == [name |-> <<"a">>, description |-> <<"b">>]

GoalFiles == {AbsentFile, MalformedFile, ScalarFile, ListFile(<<>>),
              ListFile(<<Goal1>>), ListFile(<<Goal1, Goal2>>)}
MemoryFiles == {AbsentFile, MalformedFile, ScalarFile, ListFile(<<>>)}
ConstitutionFiles == {AbsentDoc, MalformedDoc, PrinciplesDoc}

\* a reply handed to save_memory directly
ManualReply == <<MockNote, EndOfPrompt>>

InitEngine ==
    /\ memory_file \in MemoryFiles
    /\ goals_file \in GoalFiles
    /\ constitution_file \in ConstitutionFiles
    /\ clock = 0
    /\ last = NoCall
    /\ NormIdle /\ RetrIdle /\ ConcIdle

\* save_memory, lines 51-63: the file after the call, or the file as it was
\* when memories.append raises on a value that is no list
SaveMemoryFile(file, user, reply, summary, now) ==
    LET memories == load_json_data(file)
    IN IF memories.is_list
       THEN ListFile(Appended(memories.entries, new_memory(user, reply, summary, now)))
       ELSE file

\* a call of save_memory
SaveMemory(user, summary) ==
    /\ Len(memory_file.entries) < MaxMemories
    /\ LET raised == ~load_json_data(memory_file).is_list
       IN /\ memory_file' = SaveMemoryFile(memory_file, user, ManualReply, summary, clock)
          /\ last' = [op |-> "save_memory", q |-> user,
                      outcome |-> IF raised THEN "raised" ELSE "returned",
                      before |-> memory_file, reply |-> ManualReply,
                      relevant_memories |-> <<>>, relevant_goals |-> <<>>,
                      prompt |-> <<>>]
          /\ clock' = IF raised THEN clock ELSE clock + 1
    /\ UNCHANGED <<goals_file, constitution_file, normVars, retrVars, concVars>>

\* a call of get_response, lines 119-151
GetResponse(q) ==
    /\ Len(memory_file.entries) < MaxMemories
    /\ LET memories == load_json_data(memory_file)
           goals == load_json_data(goals_file)
           constitution == load_yaml_data(constitution_file)
           built == BuildReply(q, memories, goals, constitution.doc)
           raised == constitution.raised \/ built.raised
       IN /\ memory_file' = IF raised THEN memory_file
                            ELSE SaveMemoryFile(memory_file, q, built.reply, q, clock)
          /\ last' = [op |-> "get_response", q |-> q,
                      outcome |-> IF raised THEN "raised" ELSE "returned",
                      before |-> memory_file,
                      reply |-> IF raised THEN <<>> ELSE built.reply,
                      relevant_memories |-> IF raised THEN <<>> ELSE built.relevant_memories,
                      relevant_goals |-> IF raised THEN <<>> ELSE built.relevant_goals,
                      prompt |-> IF raised THEN <<>> ELSE built.prompt]
          /\ clock' = IF raised THEN clock ELSE clock + 1
    /\ UNCHANGED <<goals_file, constitution_file, normVars, retrVars, concVars>>

NextEngine ==
    \/ \E q \in EngineQueries : GetResponse(q)
    \/ \E user \in {<<"a">>}, summary \in {<<"A", "b", ".">>, <<"a", " ", "B", "'">>} :
          SaveMemory(user, summary)

SpecEngine == InitEngine /\ [][NextEngine]_vars

\* the entries a store file holds, as load_json_data reads them
Persisted(file) == load_json_data(file).entries

\* C3: every invocation of get_response(q), whatever the files held, has
\* appended one entry with user_input q and the returned reply as
\* assistant_reply to the persisted store when it ends.
C3_EveryInvocationRecords ==
    last.op = "get_response" =>
        /\ last.outcome = "returned"
        /\ memory_file.kind = "list"
        /\ Len(memory_file.entries) = Len(Persisted(last.before)) + 1
        /\ SubSeq(memory_file.entries, 1, Len(Persisted(last.before))) = Persisted(last.before)
        /\ memory_file.entries[Len(memory_file.entries)].user_input = last.q
        /\ memory_file.entries[Len(memory_file.entries)].assistant_reply = last.reply

\* C3 for the invocations that return
ReturnedInvocationRecords ==
    (last.op = "get_response" /\ last.outcome = "returned") =>
        /\ memory_file.kind = "list"
        /\ Len(memory_file.entries) = Len(Persisted(last.before)) + 1
        /\ SubSeq(memory_file.entries, 1, Len(Persisted(last.before))) = Persisted(last.before)
        /\ memory_file.entries[Len(memory_file.entries)].user_input = last.q
        /\ memory_file.entries[Len(memory_file.entries)].assistant_reply = last.reply

\* C4: after each get_response / save_memory call the entries persisted
\* before are an unchanged prefix of the entries persisted now, and there is
\* exactly one entry more.
C4_AppendOnlyOneLonger ==
    last.op \in {"get_response", "save_memory"} =>
        LET before == Persisted(last.before)
            now == Persisted(memory_file)
        IN /\ Len(now) = Len(before) + 1
           /\ SubSeq(now, 1, Len(before)) = before

\* the prefix half of C4: no call mutates, reorders or deletes an entry
NeverRewritesHistory ==
    last.op \in {"get_response", "save_memory"} =>
        LET before == Persisted(last.before)
            now == Persisted(memory_file)
        IN /\ Len(now) >= Len(before)
           /\ SubSeq(now, 1, Len(before)) = before
           /\ last.outcome = "returned" => Len(now) = Len(before) + 1

\* a store file that is absent or cannot be parsed into a list, read as empty
AsEmpty(file) == IF file.kind = "list" THEN file ELSE ListFile(<<>>)

\* C5: with any of the three files absent or malformed, get_response
\* completes, and replies as if that store held no entries.
C5_LoadNeverSurfaces ==
    last.op = "get_response" =>
        /\ last.outcome = "returned"
        /\ last.reply =
              BuildReply(last.q,
                         load_json_data(AsEmpty(last.before)),
                         load_json_data(AsEmpty(goals_file)),
                         IF constitution_file.kind = "doc"
                         THEN constitution_file.doc ELSE "{}").reply

\* C5 for the cases the loaders do handle: an absent file, and a JSON file
\* json.load cannot decode
AbsentOrUndecodableIsEmpty ==
    (/\ last.op = "get_response"
     /\ constitution_file.kind # "malformed"
     /\ goals_file.kind # "scalar"
     /\ last.before.kind # "scalar") =>
        /\ last.outcome = "returned"
        /\ last.reply =
              BuildReply(last.q,
                         load_json_data(AsEmpty(last.before)),
                         load_json_data(AsEmpty(goals_file)),
                         IF constitution_file.kind = "doc"
                         THEN constitution_file.doc ELSE "{}").reply

HasHeader(prompt, title) ==
    \E i \in DOMAIN prompt : prompt[i].seg = "header" /\ prompt[i].title = title

\* C8: format_context_for_prompt gives the empty string on an empty list,
\* for every title and text_key, and so the prompt of a get_response holds
\* no Goals / Memories delimiter when that retrieval returned nothing.
C8_EmptyFormatsToNothing ==
    /\ \A title \in {"Goals", "Memories"}, tk \in TextKeys :
          format_context_for_prompt(<<>>, title, tk) = <<>>
    /\ (last.op = "get_response" /\ last.outcome = "returned") =>
          /\ last.relevant_goals = <<>> => ~HasHeader(last.prompt, "Goals")
          /\ last.relevant_memories = <<>> => ~HasHeader(last.prompt, "Memories")
          /\ (last.relevant_goals = <<>> /\ last.relevant_memories = <<>>) =>
                 \A i \in DOMAIN last.prompt :
                     last.prompt[i].seg \in {"persona", "thought"}

\* a get_response whose goal retrieval returned nothing and whose memory
\* retrieval returned an entry: the prompt frames Memories and not Goals
C8_Witness ==
    /\ last.op = "get_response" /\ last.outcome = "returned"
    /\ last.relevant_goals = <<>>
    /\ last.relevant_memories # <<>>
    /\ HasHeader(last.prompt, "Memories")
    /\ ~HasHeader(last.prompt, "Goals")

----------------------------------------------------------------------------
(* SpecConc: two invocations of get_response on the same files, each file  *)
(* operation a step, in any interleaving.                                  *)

Procs == {1, 2}

ConcQueries == { <<"A", "b", ".">>, <<"a", " ", "B", "'">> }

Entry0 == new_memory(<<"a", " ", "B", "'">>, ManualReply, <<"a", " ", "B", "'">>, 0)

NoLocals ==
    [q |-> <<>>, memories |-> load_json_data(AbsentFile),
     goals |-> load_json_data(AbsentFile), constitution |-> "{}",
     reply |-> <<>>, saving |-> <<>>]

Active(p) == pc[p] \notin {"idle", "returned", "raised"}

\* whether the step of p now taken falls inside the other invocation
Overlapping(p) == overlap \/ \E o \in Procs \ {p} : Active(o)

InitConc ==
    /\ memory_file \in {AbsentFile, MalformedFile, ScalarFile, ListFile(<<>>), ListFile(<<Entry0>>)}
    /\ goals_file \in {ListFile(<<Goal1>>), ScalarFile}
    /\ constitution_file \in {PrinciplesDoc, MalformedDoc}
    /\ clock = 1
    /\ last = NoCall
    /\ pc = [p \in Procs |-> "idle"]
    /\ loc = [p \in Procs |-> NoLocals]
    /\ started = <<>>
    /\ overlap = FALSE
    /\ init_memory = Persisted(memory_file)
    /\ NormIdle /\ RetrIdle

\* get_response(q) is called
Call(p, q) ==
    /\ pc[p] = "idle"
    /\ pc' = [pc EXCEPT ![p] = "load_memories"]
    /\ loc' = [loc EXCEPT ![p].q = q]
    /\ started' = Append(started, p)
    /\ overlap' = Overlapping(p)
    /\ UNCHANGED <<fileVars, last, init_memory, normVars, retrVars>>

\* line 124
LoadMemories(p) ==
    /\ pc[p] = "load_memories"
    /\ loc' = [loc EXCEPT ![p].memories = load_json_data(memory_file)]
    /\ pc' = [pc EXCEPT ![p] = "load_goals"]
    /\ overlap' = Overlapping(p)
    /\ UNCHANGED <<fileVars, last, started, init_memory, normVars, retrVars>>

\* line 125
LoadGoals(p) ==
    /\ pc[p] = "load_goals"
    /\ loc' = [loc EXCEPT ![p].goals = load_json_data(goals_file)]
    /\ pc' = [pc EXCEPT ![p] = "load_constitution"]
    /\ overlap' = Overlapping(p)
    /\ UNCHANGED <<fileVars, last, started, init_memory, normVars, retrVars>>

\* line 126
LoadConstitution(p) ==
    /\ pc[p] = "load_constitution"
    /\ LET constitution == load_yaml_data(constitution_file)
       IN /\ loc' = [loc EXCEPT ![p].constitution = constitution.doc]
          /\ pc' = [pc EXCEPT ![p] = IF constitution.raised THEN "raised" ELSE "build"]
    /\ overlap' = Overlapping(p)
    /\ UNCHANGED <<fileVars, last, started, init_memory, normVars, retrVars>>

\* lines 128-146
Build(p) ==
    /\ pc[p] = "build"
    /\ LET built == BuildReply(loc[p].q, loc[p].memories, loc[p].goals, loc[p].constitution)
       IN /\ loc' = [loc EXCEPT ![p].reply = built.reply]
          /\ pc' = [pc EXCEPT ![p] = IF built.raised THEN "raised" ELSE "save_load"]
    /\ overlap' = Overlapping(p)
    /\ UNCHANGED <<fileVars, last, started, init_memory, normVars, retrVars>>

\* save_memory lines 53-61: load again, build the entry, append
SaveLoad(p) ==
    /\ pc[p] = "save_load"
    /\ LET memories == load_json_data(memory_file)
       IN IF memories.is_list
          THEN /\ loc' = [loc EXCEPT ![p].saving =
                              Appended(memories.entries,
                                       new_memory(loc[p].q, loc[p].reply, loc[p].q, clock))]
               /\ pc' = [pc EXCEPT ![p] = "save_open"]
          ELSE /\ loc' = loc
               /\ pc' = [pc EXCEPT ![p] = "raised"]
    /\ clock' = clock + 1
    /\ overlap' = Overlapping(p)
    /\ UNCHANGED <<memory_file, goals_file, constitution_file, last, started,
                   init_memory, normVars, retrVars>>

\* line 62: open(MEMORY_FILE, "w") truncates the file
SaveOpen(p) ==
    /\ pc[p] = "save_open"
    /\ memory_file' = MalformedFile
    /\ pc' = [pc EXCEPT ![p] = "save_dump"]
    /\ overlap' = Overlapping(p)
    /\ UNCHANGED <<goals_file, constitution_file, clock, last, loc, started,
                   init_memory, normVars, retrVars>>

\* line 63 and the close: the text is written from offset 0.  Onto a file
\* another writer has filled since this one's open, a shorter text leaves
\* the other's tail behind it, which json.load cannot decode.
SaveDump(p) ==
    /\ pc[p] = "save_dump"
    /\ memory_file' \in
          IF memory_file.kind = "list"
          THEN {ListFile(loc[p].saving), MalformedFile}
          ELSE {ListFile(loc[p].saving)}
    /\ pc' = [pc EXCEPT ![p] = "returned"]
    /\ overlap' = Overlapping(p)
    /\ UNCHANGED <<goals_file, constitution_file, clock, last, loc, started,
                   init_memory, normVars, retrVars>>

NextConc ==
    \E p \in Procs :
        \/ \E q \in ConcQueries : Call(p, q)
        \/ LoadMemories(p)
        \/ LoadGoals(p)
        \/ LoadConstitution(p)
        \/ Build(p)
        \/ SaveLoad(p)
        \/ SaveOpen(p)
        \/ SaveDump(p)

SpecConc == InitConc /\ [][NextConc]_vars

\* whether the persisted store holds the entry invocation p made
Holds(p) ==
    \E i \in DOMAIN Persisted(memory_file) :
        /\ Persisted(memory_file)[i].user_input = loc[p].q
        /\ Persisted(memory_file)[i].assistant_reply = loc[p].reply
        /\ Persisted(memory_file)[i].timestamp >= 1

\* C6: two invocations that run one after the other leave both new entries
\* in the store, after the earlier entries, in invocation order.  (That two
\* invocations not run one after the other can leave only one is
\* C6_LostUpdate, a state the specification reaches.)
C6_SerialKeepsBoth ==
    ((\A p \in Procs : pc[p] = "returned") /\ ~overlap) =>
        /\ memory_file.kind = "list"
        /\ Len(memory_file.entries) = Len(init_memory) + 2
        /\ SubSeq(memory_file.entries, 1, Len(init_memory)) = init_memory
        /\ \A j \in 1..2 :
              LET e == memory_file.entries[Len(init_memory) + j]
              IN /\ e.user_input = loc[started[j]].q
                 /\ e.assistant_reply = loc[started[j]].reply

\* both invocations returned, their steps interleaved, and the store holds
\* the earlier entries and the new entry of one invocation only
C6_LostUpdate ==
    /\ \A p \in Procs : pc[p] = "returned"
    /\ overlap
    /\ memory_file.kind = "list"
    /\ Len(memory_file.entries) = Len(init_memory) + 1
    /\ init_memory # <<>>
    /\ SubSeq(memory_file.entries, 1, Len(init_memory)) = init_memory
    /\ \E p \in Procs : Holds(p) /\ \A o \in Procs \ {p} : ~Holds(o)

\* two invocations run one after the other, both returned
SerialBothReturned ==
    /\ \A p \in Procs : pc[p] = "returned"
    /\ ~overlap
    /\ init_memory # <<>>

====
